---- MODULE Spec2Model ----
(***************************************************************************)
(* Model of src/Base/app_ollama.py: the tolerant JSON extractor            *)
(* (extract_json_from_text) and the Streamlit script whose three session   *)
(* slots (evaluation, original_answer, improved_answer) are driven by the  *)
(* evaluate and compare buttons.                                           *)
(*                                                                         *)
(* A text is a sequence of characters, each a one-character string.  The   *)
(* characters the code looks for (braces, backtick, whitespace) and JSON   *)
(* punctuation are always single elements; a run of ordinary letters such  *)
(* as improved_prompt may be written as one element, since no operation of *)
(* the code looks inside such a run.                                       *)
(***************************************************************************)
EXTENDS Integers, Sequences, FiniteSets, TLC

\* ------------------------------------------------------------------------
\* Bounds
\* ------------------------------------------------------------------------
MaxLen == 4
MaxUnits == 2
MaxPromptLen == 1
MaxAnswerLen == 1

\* ------------------------------------------------------------------------
\* str helpers used by extract_json_from_text
\* ------------------------------------------------------------------------
Whitespace == {" ", "\n"}

Digits == {"0", "1"}

Min(S) == CHOOSE x \in S : \A y \in S : x <= y

Max(S) == CHOOSE x \in S : \A y \in S : x >= y

\* str.strip(): drop leading and trailing whitespace
strip(s) ==
    LET keep == {i \in 1..Len(s) : s[i] \notin Whitespace}
    IN  IF keep = {} THEN <<>> ELSE SubSeq(s, Min(keep), Max(keep))

\* str.startswith / str.endswith for a one-character argument
startswith(s, c) == Len(s) >= 1 /\ s[1] = c

endswith(s, c) == Len(s) >= 1 /\ s[Len(s)] = c

\* str.find / str.rfind for one character; 0 stands for Python's -1
find(s, c) ==
    LET hits == {i \in 1..Len(s) : s[i] = c}
    IN  IF hits = {} THEN 0 ELSE Min(hits)

rfind(s, c) ==
    LET hits == {i \in 1..Len(s) : s[i] = c}
    IN  IF hits = {} THEN 0 ELSE Max(hits)

\* the backtick character (a backtick cannot be written in a TLA+ string)
BQ == "BQ"

FenceAt(s, i) == i + 2 <= Len(s) /\ s[i] = BQ /\ s[i+1] = BQ /\ s[i+2] = BQ

\* the test of line 88: three backticks occur in text
HasFence(s) == \E i \in 1..Len(s) : FenceAt(s, i)

\* text.split on three backticks: left to right, non-overlapping
RECURSIVE SplitFrom(_, _, _)
SplitFrom(s, i, cur) ==
    IF i > Len(s) THEN <<cur>>
    ELSE IF FenceAt(s, i) THEN <<cur>> \o SplitFrom(s, i + 3, <<>>)
    ELSE SplitFrom(s, i + 1, Append(cur, s[i]))

split(s) == SplitFrom(s, 1, <<>>)

\* ------------------------------------------------------------------------
\* json.loads on the alphabet of the model.  A JSON value is a record
\* [kind, val]; val is always a sequence:
\*   object  : the <<key, value>> pairs in insertion order (a Python dict)
\*   array   : the elements
\*   string  : the characters
\*   number  : the digits
\*   bool    : <<"true">> or <<"false">>
\*   null    : <<>>  (Python None)
\* JSONDecodeError is the value of kind "error".
\* ------------------------------------------------------------------------
JObj(pairs) == [kind |-> "object", val |-> pairs]

JArr(elems) == [kind |-> "array", val |-> elems]

JStr(chars) == [kind |-> "string", val |-> chars]

JNum(digits) == [kind |-> "number", val |-> digits]

JBool(word) == [kind |-> "bool", val |-> <<word>>]

None == [kind |-> "null", val |-> <<>>]

JSONDecodeError == [kind |-> "error", val |-> <<>>]

Fail == [ok |-> FALSE, v |-> JSONDecodeError, next |-> 0]

Ok(value, nxt) == [ok |-> TRUE, v |-> value, next |-> nxt]

\* index of the first non-whitespace character at or after i
SkipWs(s, i) ==
    LET stop == {j \in i..Len(s) : s[j] \notin Whitespace}
    IN  IF stop = {} THEN Len(s) + 1 ELSE Min(stop)

\* a string literal starting at the quote s[i]; control characters are
\* rejected (strict mode), escapes are outside the alphabet
ParseString(s, i) ==
    LET close == {j \in (i+1)..Len(s) : s[j] = "\""}
    IN  IF close = {} THEN Fail
        ELSE LET j == Min(close)
                 body == SubSeq(s, i + 1, j - 1)
             IN  IF \E k \in 1..Len(body) : body[k] = "\n" THEN Fail
                 ELSE Ok(JStr(body), j + 1)

\* a number starting at the digit s[i]: 0 | [1-9][0-9]*
ParseNumber(s, i) ==
    IF s[i] = "0" THEN Ok(JNum(<<"0">>), i + 1)
    ELSE LET stop == {j \in i..Len(s) : s[j] \notin Digits}
             e == IF stop = {} THEN Len(s) + 1 ELSE Min(stop)
         IN  Ok(JNum(SubSeq(s, i, e - 1)), e)

\* dict[key] = value: an existing key keeps its position
SetItem(pairs, key, value) ==
    IF \E n \in 1..Len(pairs) : pairs[n][1] = key
    THEN [n \in 1..Len(pairs) |->
             IF pairs[n][1] = key THEN <<key, value>> ELSE pairs[n]]
    ELSE Append(pairs, <<key, value>>)

RECURSIVE ParseValue(_, _), ParseMembers(_, _, _), ParseElements(_, _, _)
\* one JSON value starting at s[i] (no leading whitespace)
ParseValue(s, i) ==
    IF i > Len(s) THEN Fail
    ELSE IF s[i] = "\"" THEN ParseString(s, i)
    ELSE IF s[i] \in Digits THEN ParseNumber(s, i)
    ELSE IF s[i] \in {"true", "false"} THEN Ok(JBool(s[i]), i + 1)
    ELSE IF s[i] = "null" THEN Ok(None, i + 1)
    ELSE IF s[i] = "{" THEN
        LET j == SkipWs(s, i + 1)
        IN  IF j <= Len(s) /\ s[j] = "}" THEN Ok(JObj(<<>>), j + 1)
            ELSE ParseMembers(s, j, <<>>)
    ELSE IF s[i] = "[" THEN
        LET j == SkipWs(s, i + 1)
        IN  IF j <= Len(s) /\ s[j] = "]" THEN Ok(JArr(<<>>), j + 1)
            ELSE ParseElements(s, j, <<>>)
    ELSE Fail

\* members of an object from the key at s[i] on; acc holds the pairs so far
ParseMembers(s, i, acc) ==
    IF i > Len(s) \/ s[i] # "\"" THEN Fail
    ELSE LET k == ParseString(s, i)
         IN  IF ~k.ok THEN Fail
             ELSE LET c == SkipWs(s, k.next)
                  IN  IF c > Len(s) \/ s[c] # ":" THEN Fail
                      ELSE LET r == ParseValue(s, SkipWs(s, c + 1))
                           IN  IF ~r.ok THEN Fail
                               ELSE LET d == SkipWs(s, r.next)
                                        acc2 == SetItem(acc, k.v.val, r.v)
                                    IN  IF d > Len(s) THEN Fail
                                        ELSE IF s[d] = "}" THEN Ok(JObj(acc2), d + 1)
                                        ELSE IF s[d] = "," THEN ParseMembers(s, SkipWs(s, d + 1), acc2)
                                        ELSE Fail

\* elements of an array from s[i] on
ParseElements(s, i, acc) ==
    LET r == ParseValue(s, i)
    IN  IF ~r.ok THEN Fail
        ELSE LET d == SkipWs(s, r.next)
                 acc2 == Append(acc, r.v)
             IN  IF d > Len(s) THEN Fail
                 ELSE IF s[d] = "]" THEN Ok(JArr(acc2), d + 1)
                 ELSE IF s[d] = "," THEN ParseElements(s, SkipWs(s, d + 1), acc2)
                 ELSE Fail

\* json.loads(text): one value, surrounded by optional whitespace
json_loads(s) ==
    LET r == ParseValue(s, SkipWs(s, 1))
    IN  IF ~r.ok THEN JSONDecodeError
        ELSE IF SkipWs(s, r.next) <= Len(s) THEN JSONDecodeError
        ELSE r.v

\* ------------------------------------------------------------------------
\* extract_json_from_text
\* ------------------------------------------------------------------------
\* the fenced part the loop of lines 90-94 selects, or the text itself
FencedPart(text) ==
    IF HasFence(text)
    THEN LET parts == split(text)
             good == {n \in 1..Len(parts) :
                         /\ startswith(strip(parts[n]), "{")
                         /\ endswith(strip(parts[n]), "}")}
         IN  IF good = {} THEN text ELSE strip(parts[Min(good)])
    ELSE text

\* the span from the first { to the last } (lines 96-100)
BraceSpan(text) ==
    IF ~startswith(strip(text), "{")
    THEN LET start == find(text, "{")
             end == rfind(text, "}")
         IN  IF start # 0 /\ end # 0 THEN SubSeq(text, start, end) ELSE text
    ELSE text

extract_json_from_text(text) == json_loads(BraceSpan(FencedPart(text)))

\* ------------------------------------------------------------------------
\* json.dumps with the default separators; a string of the alphabet needs
\* no escaping (it holds no quote, backslash or control character)
\* ------------------------------------------------------------------------
RECURSIVE json_dumps(_), DumpPairs(_, _), DumpElems(_, _)
json_dumps(v) ==
    CASE v.kind = "object" -> <<"{">> \o DumpPairs(v.val, 1) \o <<"}">>
      [] v.kind = "array"  -> <<"[">> \o DumpElems(v.val, 1) \o <<"]">>
      [] v.kind = "string" -> <<"\"">> \o v.val \o <<"\"">>
      [] v.kind = "null"   -> <<"null">>
      [] OTHER             -> v.val

DumpPairs(pairs, n) ==
    IF n > Len(pairs) THEN <<>>
    ELSE (IF n > 1 THEN <<",", " ">> ELSE <<>>)
         \o <<"\"">> \o pairs[n][1] \o <<"\"", ":", " ">> \o json_dumps(pairs[n][2])
         \o DumpPairs(pairs, n + 1)

DumpElems(elems, n) ==
    IF n > Len(elems) THEN <<>>
    ELSE (IF n > 1 THEN <<",", " ">> ELSE <<>>)
         \o json_dumps(elems[n]) \o DumpElems(elems, n + 1)

\* dict.get(key, default) on an object
Get(obj, key, default) ==
    LET hits == {n \in 1..Len(obj.val) : obj.val[n][1] = key}
    IN  IF hits = {} THEN default ELSE obj.val[Min(hits)][2]

Keys(obj) == {obj.val[n][1] : n \in 1..Len(obj.val)}

\* Python == on parsed values: dicts compare without regard to order
RECURSIVE JsonEq(_, _)
JsonEq(a, b) ==
    /\ a.kind = b.kind
    /\ CASE a.kind = "object" ->
              /\ Keys(a) = Keys(b)
              /\ \A k \in Keys(a) : JsonEq(Get(a, k, None), Get(b, k, None))
         [] a.kind = "array" ->
              /\ Len(a.val) = Len(b.val)
              /\ \A n \in 1..Len(a.val) : JsonEq(a.val[n], b.val[n])
         [] OTHER -> a.val = b.val

\* ------------------------------------------------------------------------
\* Inputs of the extractor
\* ------------------------------------------------------------------------
Fence == <<BQ, BQ, BQ>>

Alphabet == {"{", "}", BQ, "\"", "1", "a", " "}

\* every text over Alphabet of at most MaxLen characters
Texts == UNION {[1..n -> Alphabet] : n \in 0..MaxLen}

\* pieces a string value is built from
Units == {<<"a">>, <<"{">>, <<"}">>, Fence}

RECURSIVE Concat(_)
Concat(ss) == IF ss = <<>> THEN <<>> ELSE Head(ss) \o Concat(Tail(ss))

StringBodies == {Concat(us) : us \in UNION {[1..n -> Units] : n \in 0..MaxUnits}}

\* texts of JSON values: strings, a number, an empty object, an array
ValueTexts ==
    {<<"\"">> \o b \o <<"\"">> : b \in StringBodies}
        \cup {<<"1">>, <<"{", "}">>, <<"[", "1", "]">>}

Member(k, v) == <<"\"", k, "\"", ":">> \o v

\* texts of valid JSON objects with at most two members
ObjectTexts ==
    {<<"{", "}">>}
        \cup {<<"{">> \o Member("a", v) \o <<"}">> : v \in ValueTexts}
        \cup {<<"{">> \o Member("a", v) \o <<",">> \o Member("b", w) \o <<"}">> :
                 v \in ValueTexts, w \in {<<"1">>, <<"\"", "}", "\"">>}}

\* prose around the object: letters and blanks
Leading == {<<>>, <<"a", " ">>}

Trailing == {<<>>, <<" ", "a">>}

\* what follows the opening fence: nothing or a language tag
Tags == {<<>>, <<"json">>, <<"json", "\n">>}

\* an object, optionally inside one pair of fences, optionally within prose
Wrap(pre, fenced, tag, obj, post) ==
    pre \o (IF fenced THEN Fence \o tag \o obj \o Fence ELSE obj) \o post

\* ------------------------------------------------------------------------
\* Inputs of the script: prompts, transport outcomes, model replies
\* ------------------------------------------------------------------------
\* what the user may type into the text area
Prompts == UNION {[1..n -> {" ", "q"}] : n \in 0..MaxPromptLen}

\* default_text (line 217): a non-blank prompt
default_text == <<"q">>

\* how one ollama_chat call ends: the content is returned, or requests.post
\* times out or cannot connect, raise_for_status raises, or the body lacks
\* message.content
Outcomes == {"ok", "ReadTimeout", "ConnectionError", "HTTPError", "KeyError"}

\* contents the model returns to call_llm_answer
AnswerTexts == UNION {[1..n -> {"a"}] : n \in 0..MaxAnswerLen}

Quoted(body) == <<"\"">> \o body \o <<"\"">>

\* the improved_prompt member of a reply: missing, empty, a text, a number
PromptFields ==
    {<<>>,
     Member("improved_prompt", Quoted(<<>>)),
     Member("improved_prompt", Quoted(<<"p1">>)),
     Member("improved_prompt", Quoted(<<"p2">>)),
     Member("improved_prompt", <<"1">>)}

\* the scores member: missing, a mapping, a number
ScoreFields ==
    {<<>>,
     Member("scores", <<"{">> \o Member("persona", <<"1">>) \o <<"}">>),
     Member("scores", <<"1">>)}

\* the improvements member: missing, a list, a number
ImprovementFields ==
    {<<>>,
     Member("improvements", <<"[">> \o Quoted(<<"i">>) \o <<"]">>),
     Member("improvements", <<"1">>)}

RECURSIVE JoinFields(_)
JoinFields(fs) ==
    IF fs = <<>> THEN <<>>
    ELSE IF Head(fs) = <<>> THEN JoinFields(Tail(fs))
    ELSE LET rest == JoinFields(Tail(fs))
         IN  Head(fs) \o (IF rest = <<>> THEN <<>> ELSE <<",", " ">> \o rest)

\* replies that are one JSON object
EvaluationTexts ==
    {<<"{">> \o JoinFields(<<s, i, p>>) \o <<"}">> :
        s \in ScoreFields, i \in ImprovementFields, p \in PromptFields}

\* replies of the model to the evaluation request: an object, bare or in a
\* fence with a language tag, a JSON value that is no object, or prose
Replies ==
    EvaluationTexts
        \cup {Wrap(<<>>, TRUE, <<"json", "\n">>, o \o <<"\n">>, <<>>) :
                 o \in {e \in EvaluationTexts : Len(e) <= 8}}
        \cup {<<"1">>, <<"[", "1", "]">>, <<"no", " ", "json", " ", "here">>}

\* call_prompt_evaluator (lines 168-169): each reply the transport may
\* return, paired with what the extractor makes of it
call_prompt_evaluator ==
    {<<raw, extract_json_from_text(raw)>> : raw \in Replies}

\* ------------------------------------------------------------------------
\* Python truthiness and the display code of lines 252-371
\* ------------------------------------------------------------------------
\* bool(v)
Truthy(v) ==
    CASE v.kind = "null"   -> FALSE
      [] v.kind = "bool"   -> v.val = <<"true">>
      [] v.kind = "number" -> v.val # <<"0">>
      [] OTHER             -> v.val # <<>>

\* v has a .get method
IsDict(v) == v.kind = "object"

\* enumerate(v) accepts v
IsIterable(v) == v.kind \in {"object", "array", "string"}

\* evaluation.get("improved_prompt", "")
improved_prompt(e) == Get(e, <<"improved_prompt">>, JStr(<<>>))

\* the display code raises: .get on something that is no dict (lines 255,
\* 278, 323) or enumerate on something that is no iterable (line 346)
DisplayRaises(e) ==
    /\ Truthy(e)
    /\ \/ ~IsDict(e)
       \/ ~IsDict(Get(e, <<"scores">>, JObj(<<>>)))
       \/ ~IsDict(Get(e, <<"diagnosis">>, JObj(<<>>)))
       \/ LET improvements == Get(e, <<"improvements">>, JArr(<<>>))
          IN  Truthy(improvements) /\ ~IsIterable(improvements)

\* a comparison section that does not look at improved_prompt
CompareOffered_always(e) ==
    /\ Truthy(e)
    /\ ~DisplayRaises(e)

\* the comparison section with its button is reached (lines 252, 376, 414)
CompareOffered(e) ==
    /\ Truthy(e)
    /\ ~DisplayRaises(e)
    /\ Truthy(improved_prompt(e))

\* dict.update: the pairs of new written over old
RECURSIVE Update(_, _, _)
Update(old, new, n) ==
    IF n > Len(new) THEN old
    ELSE Update(SetItem(old, new[n][1], new[n][2]), new, n + 1)

\* a store that merges the new evaluation into the previous one
EvaluationAfterEvaluate_merged(old, new) ==
    IF IsDict(old) /\ IsDict(new) THEN JObj(Update(old.val, new.val, 1)) ELSE new

\* the slots after a successful evaluation (lines 239-242)
EvaluationAfterEvaluate(old, new) == new

\* an evaluation that leaves the comparison answers in place
AnswerAfterEvaluate_kept(answer) == answer

AnswerAfterEvaluate(answer) == None

\* the requests a compare action issues (lines 419-420): the second call is
\* made only when the first returned
Request(kind, prompt, outcome) ==
    [kind |-> kind, prompt |-> prompt, outcome |-> outcome]

\* both calls issued whatever the first one did
CompareRequests_both(p, e, o1, o2) ==
    <<Request("answer", JStr(p), o1), Request("answer", improved_prompt(e), o2)>>

CompareRequests(p, e, o1, o2) ==
    IF o1 = "ok"
    THEN <<Request("answer", JStr(p), o1), Request("answer", improved_prompt(e), o2)>>
    ELSE <<Request("answer", JStr(p), o1)>>

\* the first answer stored as soon as its call returns
OriginalAfterCompare_early(old, o1, a1, o2) ==
    IF o1 = "ok" THEN JStr(a1) ELSE old

\* the answer slots after the try block of a compare action (lines 419-422)
OriginalAfterCompare(old, o1, a1, o2) ==
    IF o1 = "ok" /\ o2 = "ok" THEN JStr(a1) ELSE old

ImprovedAfterCompare(old, o1, o2, a2) ==
    IF o1 = "ok" /\ o2 = "ok" THEN JStr(a2) ELSE old

\* the message of the except clauses of a compare action (lines 423-429)
CompareMessages(o1, o2) ==
    LET failed == IF o1 # "ok" THEN o1 ELSE o2
    IN  IF failed = "ok" THEN <<>>
        ELSE IF failed = "ReadTimeout" THEN <<"error_timeout">>
        ELSE <<"error_compare">>

\* what one run of the script puts on the page below the prompt
Rendered(e, original, improved) ==
    {"evaluate_btn"}
        \cup (IF Truthy(e) /\ ~DisplayRaises(e) THEN {"evaluation"} ELSE {})
        \cup (IF CompareOffered(e) THEN {"compare_btn"} ELSE {})
        \cup (IF CompareOffered(e) /\ Truthy(original) /\ Truthy(improved)
              THEN {"answers"} ELSE {})

\* ------------------------------------------------------------------------
\* State
\* ------------------------------------------------------------------------
VARIABLES
    evaluation,          \* st.session_state.evaluation
    original_answer,     \* st.session_state.original_answer
    improved_answer,     \* st.session_state.improved_answer
    improved_answer_for, \* the prompt that was sent to obtain improved_answer
    user_prompt,         \* the text area
    clicked,             \* the button that started the last run
    raw_text,            \* the reply to the evaluation request of the run
    returned,            \* what call_prompt_evaluator returned in the run
    requests,            \* the requests the last run posted, in order
    messages,            \* the warnings and errors the last run showed
    uncaught,            \* the last run ended in an uncaught exception
    rendered             \* what the last run put on the page

VARIABLES
    text,        \* the argument of extract_json_from_text
    embedded,    \* the JSON object text was built around, <<>> if none
    record,      \* what extract_json_from_text(text) returned
    serialized,  \* json.dumps(record)
    again,       \* extract_json_from_text(serialized)
    pc           \* position of the extractor run

svars == <<evaluation, original_answer, improved_answer, improved_answer_for,
           user_prompt, clicked, raw_text, returned, requests, messages, uncaught,
           rendered>>

xvars == <<text, embedded, record, serialized, again, pc>>

vars == <<svars, xvars>>

\* ------------------------------------------------------------------------
\* The script: one action per run
\* ------------------------------------------------------------------------
\* the extractor is idle while the script is modelled
XIdle ==
    /\ pc = "idle"
    /\ text = <<>>
    /\ embedded = <<>>
    /\ record = None
    /\ serialized = <<>>
    /\ again = None

\* the first run of a new session (lines 190-197, 217-226)
Init ==
    /\ evaluation = None
    /\ original_answer = None
    /\ improved_answer = None
    /\ improved_answer_for = None
    /\ user_prompt = default_text
    /\ clicked = "none"
    /\ raw_text = <<>>
    /\ returned = None
    /\ requests = <<>>
    /\ messages = <<>>
    /\ uncaught = FALSE
    /\ rendered = Rendered(None, None, None)
    /\ XIdle

\* the rest of a run once the slots are settled (lines 246-457)
Display ==
    /\ uncaught' = DisplayRaises(evaluation')
    /\ rendered' = Rendered(evaluation', original_answer', improved_answer')

\* a run without a button: the user edited the prompt
Rerun(p) ==
    /\ user_prompt' = p
    /\ clicked' = "none"
    /\ raw_text' = <<>>
    /\ returned' = None
    /\ requests' = <<>>
    /\ messages' = <<>>
    /\ UNCHANGED <<evaluation, original_answer, improved_answer, improved_answer_for>>
    /\ Display
    /\ UNCHANGED xvars

\* a run started by the evaluate button (lines 232-244): typed prompt p,
\* transport outcome o, model reply and what call_prompt_evaluator makes of it
Evaluate(p, o, reply, result) ==
    /\ user_prompt' = p
    /\ clicked' = "evaluate"
    /\ IF strip(p) = <<>>
       THEN /\ messages' = <<"warning_blank">>
            /\ requests' = <<>>
            /\ raw_text' = <<>>
            /\ returned' = None
            /\ UNCHANGED <<evaluation, original_answer, improved_answer, improved_answer_for>>
       ELSE /\ requests' = <<Request("evaluate", JStr(p), o)>>
            /\ raw_text' = IF o = "ok" THEN reply ELSE <<>>
            /\ returned' = IF o = "ok" /\ result # JSONDecodeError THEN result ELSE None
            /\ IF o = "ok" /\ result # JSONDecodeError
               THEN /\ evaluation' = EvaluationAfterEvaluate(evaluation, result)
                    /\ original_answer' = AnswerAfterEvaluate(original_answer)
                    /\ improved_answer' = AnswerAfterEvaluate(improved_answer)
                    /\ improved_answer_for' =
                           IF AnswerAfterEvaluate(improved_answer) = None
                           THEN None ELSE improved_answer_for
                    /\ messages' = <<>>
               ELSE /\ messages' = <<"error_evaluate">>
                    /\ UNCHANGED <<evaluation, original_answer, improved_answer, improved_answer_for>>
    /\ Display
    /\ UNCHANGED xvars

\* a run started by the compare button (lines 414-429); the button can be
\* clicked only if the previous run rendered it
Compare(p, o1, a1, o2, a2) ==
    /\ "compare_btn" \in rendered
    /\ user_prompt' = p
    /\ clicked' = "compare"
    /\ raw_text' = <<>>
    /\ returned' = None
    /\ requests' = CompareRequests(p, evaluation, o1, o2)
    /\ messages' = CompareMessages(o1, o2)
    /\ original_answer' = OriginalAfterCompare(original_answer, o1, a1, o2)
    /\ improved_answer' = ImprovedAfterCompare(improved_answer, o1, o2, a2)
    /\ improved_answer_for' =
           IF o1 = "ok" /\ o2 = "ok" THEN improved_prompt(evaluation)
           ELSE improved_answer_for
    /\ UNCHANGED evaluation
    /\ Display
    /\ UNCHANGED xvars

\* one run of the script; an input the run never reads (the reply of a call
\* that failed or was not made, the answer of a failed call) is held fixed
Next ==
    \/ \E p \in Prompts : Rerun(p)
    \/ \E p \in Prompts, o \in Outcomes, r \in call_prompt_evaluator :
          /\ (o # "ok" \/ strip(p) = <<>>) => r[1] = <<"1">>
          /\ strip(p) = <<>> => o = "ok"
          /\ Evaluate(p, o, r[1], r[2])
    \/ \E p \in Prompts, o1 \in Outcomes, a1 \in AnswerTexts :
          \E o2 \in Outcomes, a2 \in AnswerTexts :
              /\ o1 # "ok" => (a1 = <<>> /\ o2 = "ok" /\ a2 = <<>>)
              /\ o2 # "ok" => (a1 = <<>> /\ a2 = <<>>)
              /\ Compare(p, o1, a1, o2, a2)

Spec == Init /\ [][Next]_vars

\* ------------------------------------------------------------------------
\* Properties of the script
\* ------------------------------------------------------------------------
Range(f) == {f[n] : n \in DOMAIN f}

Slots == <<evaluation, original_answer, improved_answer>>

\* (C1) Whenever a run displays the pair of generated answers, the stored
\* evaluation is an object whose improved_prompt is non-empty and is the
\* prompt that was sent to obtain the displayed improved answer.
C1_AnswersBelongToEvaluation ==
    "answers" \in rendered =>
        /\ IsDict(evaluation)
        /\ Truthy(improved_prompt(evaluation))
        /\ improved_answer_for = improved_prompt(evaluation)

\* answers still displayed by a run whose evaluate action failed
C1_Witness ==
    /\ "answers" \in rendered
    /\ clicked = "evaluate"
    /\ messages = <<"error_evaluate">>

\* (C2) A run whose evaluate action succeeded ends with the evaluation
\* being exactly the record call_prompt_evaluator returned, with both
\* answer slots absent and no answers displayed.
C2_EvaluateReplacesAndClears ==
    [][(clicked' = "evaluate" /\ messages' = <<>>) =>
          /\ evaluation' = returned'
          /\ original_answer' = None
          /\ improved_answer' = None
          /\ "answers" \notin rendered']_vars

\* a successful evaluation that stored an object lacking some fields
C2_Witness ==
    /\ clicked = "evaluate"
    /\ messages = <<>>
    /\ IsDict(evaluation)
    /\ Keys(evaluation) = {<<"improved_prompt">>}

\* (C3) A run whose evaluate action failed shows exactly one error, keeps
\* the three slots, and still displays the prior evaluation.
C3_FailedEvaluateKeepsAll ==
    [][(clicked' = "evaluate" /\ "error_evaluate" \in Range(messages')) =>
          /\ Len(messages') = 1
          /\ ~uncaught'
          /\ Slots' = Slots
          /\ Truthy(evaluation) => "evaluation" \in rendered']_vars

\* there is no successful evaluation to compare against
NoPriorEvaluation ==
    \/ ~Truthy(evaluation)
    \/ IsDict(evaluation) /\ ~Truthy(improved_prompt(evaluation))

\* (C4, as stated) With no prior successful evaluation a compare action
\* can be triggered, and it is answered by a guidance message and no call.
C4_CompareRejectedWithGuidance ==
    NoPriorEvaluation =>
        /\ "compare_btn" \in rendered
        /\ clicked = "compare" =>
              (requests = <<>> /\ "guidance_compare" \in Range(messages))

\* (C4, amended) With no prior successful evaluation the compare button is
\* not rendered, so no compare action runs: no guidance message is shown
\* and no answer request is posted.
C4_CompareUnavailable ==
    NoPriorEvaluation =>
        /\ "compare_btn" \notin rendered
        /\ clicked # "compare"
        /\ \A n \in 1..Len(requests) : requests[n].kind # "answer"
        /\ Range(messages) \subseteq {"warning_blank", "error_evaluate"}

\* an evaluation was stored whose improved_prompt is empty
C4_Witness ==
    /\ clicked = "evaluate"
    /\ messages = <<>>
    /\ IsDict(evaluation)
    /\ Truthy(evaluation)
    /\ ~Truthy(improved_prompt(evaluation))

\* (C8) No run ends in an uncaught error, the evaluate button is always
\* rendered, and a stored evaluation is displayed.
C8_NoUncaughtError ==
    /\ ~uncaught
    /\ "evaluate_btn" \in rendered
    /\ Truthy(evaluation) => "evaluation" \in rendered

\* (C9) An evaluate run posts one request for a non-blank prompt and none
\* for a blank one; a compare run posts the request for the original prompt
\* first and the one for the optimized prompt only after the first returned,
\* so one request if the first failed and two otherwise; no other run posts.
C9_OneRequestPerCall ==
    /\ clicked = "none" => requests = <<>>
    /\ clicked = "evaluate" =>
          IF strip(user_prompt) = <<>> THEN requests = <<>>
          ELSE /\ Len(requests) = 1
               /\ requests[1].kind = "evaluate"
               /\ requests[1].prompt = JStr(user_prompt)
    /\ clicked = "compare" =>
          /\ Len(requests) \in {1, 2}
          /\ requests[1].kind = "answer"
          /\ requests[1].prompt = JStr(user_prompt)
          /\ Len(requests) = 1 <=> requests[1].outcome # "ok"
          /\ Len(requests) = 2 =>
                /\ requests[2].kind = "answer"
                /\ requests[2].prompt = improved_prompt(evaluation)

\* a compare run whose first call failed
C9_Witness ==
    /\ clicked = "compare"
    /\ Len(requests) = 1
    /\ requests[1].outcome = "ReadTimeout"

\* (C10) The two answer slots are both absent or both set, and a compare
\* run in which a call failed leaves the three slots as they were.
C10_SlotsTogether ==
    /\ []((original_answer = None) <=> (improved_answer = None))
    /\ [][(clicked' = "compare" /\ messages' # <<>>) => Slots' = Slots]_vars

\* a compare run that failed on its second call while answers were stored
C10_Witness ==
    /\ clicked = "compare"
    /\ Len(requests) = 2
    /\ messages # <<>>
    /\ original_answer # None
    /\ improved_answer # None

\* the session is idle while the extractor is exercised
SIdle ==
    /\ evaluation = None
    /\ original_answer = None
    /\ improved_answer = None
    /\ improved_answer_for = None
    /\ user_prompt = default_text
    /\ clicked = "none"
    /\ raw_text = <<>>
    /\ returned = None
    /\ requests = <<>>
    /\ messages = <<>>
    /\ uncaught = FALSE
    /\ rendered = Rendered(None, None, None)

\* ------------------------------------------------------------------------
\* The extractor applied to an input, then to its own re-serialized output
\* ------------------------------------------------------------------------
ExtractInit ==
    /\ SIdle
    /\ pc = "start"
    /\ record = None
    /\ serialized = <<>>
    /\ again = None
    /\ \/ /\ text \in Texts
          /\ embedded = <<>>
       \/ \E pre \in Leading, fenced \in BOOLEAN, tag \in Tags,
             obj \in ObjectTexts, post \in Trailing :
             /\ fenced \/ tag = <<>>
             /\ text = Wrap(pre, fenced, tag, obj, post)
             /\ embedded = obj

Extract ==
    /\ pc = "start"
    /\ record' = extract_json_from_text(text)
    /\ pc' = "extracted"
    /\ UNCHANGED <<text, embedded, serialized, again>>
    /\ UNCHANGED svars

Reserialize ==
    /\ pc = "extracted"
    /\ record # JSONDecodeError
    /\ serialized' = json_dumps(record)
    /\ pc' = "serialized"
    /\ UNCHANGED <<text, embedded, record, again>>
    /\ UNCHANGED svars

ExtractAgain ==
    /\ pc = "serialized"
    /\ again' = extract_json_from_text(serialized)
    /\ pc' = "done"
    /\ UNCHANGED <<text, embedded, record, serialized>>
    /\ UNCHANGED svars

ExtractNext == Extract \/ Reserialize \/ ExtractAgain

ExtractSpec == ExtractInit /\ [][ExtractNext]_vars

\* (C5) A text without { or without } makes the extractor fail with a
\* parse error; it returns no value.
C5_NoBraceFails ==
    (pc # "start" /\ (find(text, "{") = 0 \/ find(text, "}") = 0))
        => record = JSONDecodeError

\* (C6) Extracting the re-serialization of an extracted record succeeds
\* and yields an equal record.
C6_Idempotent ==
    pc = "done" => (again # JSONDecodeError /\ JsonEq(again, record))

\* (C7) For a valid JSON object, optionally fenced (with or without a tag)
\* and optionally within prose, the extractor returns what parsing the
\* object itself returns.
C7_SameAsDirect ==
    (pc # "start" /\ embedded # <<>>)
        => (record # JSONDecodeError /\ JsonEq(record, json_loads(embedded)))

====
